---- MODULE Spec2Model ----
(***************************************************************************)
(* A model of the uhyve hypervisor front end:                              *)
(*   - src/src/linux/uhyve.rs : UhyveNetwork (the TAP bridge threads over  *)
(*     the two SharedQueue rings), Uhyve::new (the VM builder), MmapMemory *)
(*   - src/src/bin/uhyve.rs   : main (argument handling, start of the VM)  *)
(*                                                                         *)
(* Two specifications share the variables:                                 *)
(*   Spec      the bridge: reader thread, writer thread, wake channel and  *)
(*             the guest side of the two rings;                            *)
(*   SpecBoot  the start-up path: main, then Uhyve::new, then run.         *)
(*                                                                         *)
(* Sizes of memory are counted in MiB (1 unit = 2^20 bytes), so that       *)
(* 2^32 bytes is 4096.  Ring indices are u64 in the code; they stay far    *)
(* below 2^64 here and are plain integers.                                 *)
(***************************************************************************)
EXTENDS Integers, Sequences, FiniteSets, TLC

(***************************************************************************)
(* Bounds of the model.                                                    *)
(***************************************************************************)
\* slots per ring (UHYVE_QUEUE_SIZE of crate::consts, shared with the guest)
UHYVE_QUEUE_SIZE == 2
\* largest packet length the TAP device or the guest produces
MaxLen == 2
\* packets the TAP device delivers in one behaviour
MaxRx == 3
\* packets the guest transmits in one behaviour
MaxTx == 2

\* Option<T>: None is the empty set, Some(x) the set of x alone
None == {}

Some(x) == {x}

Unwrap(o) == CHOOSE x \in o : TRUE

\* Option<String> of the nic name
NoNic == "none"

VARIABLES
    rx_queue,   \* SharedQueue at SHAREDQUEUE_START (host -> guest)
    tx_queue,   \* SharedQueue behind it (guest -> host)
    reader,     \* reader thread: pc and its locals written, read, idx, len
    writer,     \* writer thread: pc and its locals written, read, idx, len
    chan,       \* tokens waiting in sync_channel(1)
    irqs,       \* number of evtfd.write(1) calls that returned
    tap_in,     \* packets the TAP device handed to iface.recv, in order
    tap_out,    \* packets handed to iface.send, in order
    guest_rx,   \* guest consumer of the RX ring: pc and locals
    guest_tx,   \* guest producer of the TX ring: pc and locals
    got,        \* packets the guest consumer copied out, in order
    sent,       \* packets the guest producer published, in order
    tokens,     \* wake tokens the writer thread received
    vm_alive,   \* the process and its vCPUs are running
    args,       \* what the caller asked for: the command line of main, or
                \* the Parameter a library caller hands to Uhyve::new
    pc,         \* position of the main thread
    mem_size,   \* main: mem_size (MiB)
    warned,     \* main: warn!("Resize guest memory to ..") was emitted
    num_cpus,   \* main: num_cpus
    core_ids,   \* main: cpu_affinity (None or the selected host cores)
    params,     \* vm::Parameter handed to Uhyve::new
    vm,         \* KVM.create_vm() has returned a VM handle
    mem,        \* MmapMemory of the VM, None before it is mapped
    regions,    \* regions installed with set_user_memory_region
    failed,     \* host calls that returned an error
    passed,     \* host calls that returned success
    uhyve_device, \* UhyveNetwork::new has spawned the bridge threads
    result,     \* outcome of Uhyve::new: "none", "Ok", "Err" or "Panic"
    vcpus,      \* vCPUs created by run
    cpu_tx      \* per created vCPU (by id): the tx create_cpu handed to it

bootVars == <<args, pc, mem_size, warned, num_cpus, core_ids, params, vm, mem,
              regions, failed, passed, uhyve_device, result, vcpus, cpu_tx>>

ringVars == <<rx_queue, tx_queue, reader, writer, chan, irqs, tap_in, tap_out,
              guest_rx, guest_tx, got, sent, tokens, vm_alive>>

vars == <<ringVars, bootVars>>

Slots == 0 .. (UHYVE_QUEUE_SIZE - 1)

\* a slot that was never written: len 0 and an empty data buffer
EmptySlot == [len |-> 0, data |-> 0]

(***************************************************************************)
(* SharedQueue::init : both indices are zeroed.                            *)
(***************************************************************************)
QueueInit(q) == [q EXCEPT !.read = 0, !.written = 0]

\* guest memory is a fresh anonymous mapping: all zero
FreshQueue == [read |-> 0, written |-> 0, inner |-> [s \in Slots |-> EmptySlot]]

(***************************************************************************)
(* The conditions of the two loops.                                        *)
(***************************************************************************)
RxHasRoomOff(distance) == distance <= UHYVE_QUEUE_SIZE

\* reader thread: if distance < UHYVE_QUEUE_SIZE
RxHasRoom(distance) == distance < UHYVE_QUEUE_SIZE

\* writer thread: if distance > 0
TxPending(distance) == distance > 0

SlotIndexOff(index) == (index + 1) % UHYVE_QUEUE_SIZE

\* idx = index % UHYVE_QUEUE_SIZE
SlotIndex(index) == index % UHYVE_QUEUE_SIZE

NextIndexSkip(index) == index + 2

\* the index a thread stores back: written + 1 (reader), read + 1 (writer)
NextIndex(index) == index + 1

(***************************************************************************)
(* A panic (a failed expect or unwrap) inside a closure run by             *)
(* thread::spawn unwinds that thread only; the process and its other       *)
(* threads go on.                                                          *)
(***************************************************************************)
AfterThreadPanicAbort(alive) == FALSE

AfterThreadPanic(alive) == alive

(***************************************************************************)
(* The reader thread of UhyveNetwork::new (TAP -> RX ring).                *)
(***************************************************************************)
\* rx_queue.init()
ReaderInit ==
    /\ vm_alive
    /\ UNCHANGED bootVars
    /\ reader.pc = "init"
    /\ rx_queue' = QueueInit(rx_queue)
    /\ reader' = [reader EXCEPT !.pc = "poll"]
    /\ UNCHANGED <<tx_queue, writer, chan, irqs, tap_in, tap_out, guest_rx,
                   guest_tx, got, sent, tokens, vm_alive>>

\* let written = read_volatile(&rx_queue.written);
\* let read = read_volatile(&rx_queue.read);
\* let distance = written - read;
\* if distance < UHYVE_QUEUE_SIZE { let idx = written % UHYVE_QUEUE_SIZE; .. }
\* else { hint::spin_loop() }
\* (`written` is stored by this thread alone, so the one access that other
\* steps can interleave with is the load of `read`)
ReaderPoll ==
    /\ vm_alive
    /\ UNCHANGED bootVars
    /\ reader.pc = "poll"
    /\ IF RxHasRoom(rx_queue.written - rx_queue.read)
       THEN reader' = [reader EXCEPT !.pc = "recv",
                                     !.written = rx_queue.written,
                                     !.read = rx_queue.read,
                                     !.idx = SlotIndex(rx_queue.written)]
       ELSE reader' = [reader EXCEPT !.pc = "poll",
                                     !.written = rx_queue.written,
                                     !.read = rx_queue.read]
    /\ UNCHANGED <<rx_queue, tx_queue, writer, chan, irqs, tap_in, tap_out,
                   guest_rx, guest_tx, got, sent, tokens, vm_alive>>

\* iface_reader.recv(&mut rx_queue.inner[idx].data) returns Ok(len): the
\* packet is in the slot's data buffer, its length in a temporary
ReaderRecv ==
    /\ vm_alive
    /\ UNCHANGED bootVars
    /\ reader.pc = "recv"
    /\ Len(tap_in) < MaxRx
    /\ \E l \in 1 .. MaxLen :
         LET pkt == [len |-> l, data |-> Len(tap_in) + 1] IN
           /\ tap_in' = Append(tap_in, pkt)
           /\ rx_queue' = [rx_queue EXCEPT !.inner[reader.idx].data = pkt.data]
           /\ reader' = [reader EXCEPT !.pc = "store_len", !.len = l]
    /\ UNCHANGED <<tx_queue, writer, chan, irqs, tap_out, guest_rx, guest_tx,
                   got, sent, tokens, vm_alive>>

\* iface_reader.recv(..) returns Err: expect("Receive on TUN/TAP device failed!")
ReaderRecvFail ==
    /\ vm_alive
    /\ UNCHANGED bootVars
    /\ reader.pc = "recv"
    /\ reader' = [reader EXCEPT !.pc = "dead"]
    /\ vm_alive' = AfterThreadPanic(vm_alive)
    /\ UNCHANGED <<rx_queue, tx_queue, writer, chan, irqs, tap_in, tap_out,
                   guest_rx, guest_tx, got, sent, tokens>>

\* write_volatile(&mut rx_queue.inner[idx].len, len)
ReaderStoreLen ==
    /\ vm_alive
    /\ UNCHANGED bootVars
    /\ reader.pc = "store_len"
    /\ rx_queue' = [rx_queue EXCEPT !.inner[reader.idx].len = reader.len]
    /\ reader' = [reader EXCEPT !.pc = "store_written"]
    /\ UNCHANGED <<tx_queue, writer, chan, irqs, tap_in, tap_out, guest_rx,
                   guest_tx, got, sent, tokens, vm_alive>>

\* write_volatile(&mut rx_queue.written, written + 1)
ReaderStoreWritten ==
    /\ vm_alive
    /\ UNCHANGED bootVars
    /\ reader.pc = "store_written"
    /\ rx_queue' = [rx_queue EXCEPT !.written = NextIndex(reader.written)]
    /\ reader' = [reader EXCEPT !.pc = "irq"]
    /\ UNCHANGED <<tx_queue, writer, chan, irqs, tap_in, tap_out, guest_rx,
                   guest_tx, got, sent, tokens, vm_alive>>

\* evtfd.write(1) returns Ok
ReaderIrq ==
    /\ vm_alive
    /\ UNCHANGED bootVars
    /\ reader.pc = "irq"
    /\ irqs' = irqs + 1
    /\ reader' = [reader EXCEPT !.pc = "poll"]
    /\ UNCHANGED <<rx_queue, tx_queue, writer, chan, tap_in, tap_out, guest_rx,
                   guest_tx, got, sent, tokens, vm_alive>>

\* evtfd.write(1) returns Err: expect("Unable to trigger interrupt")
ReaderIrqFail ==
    /\ vm_alive
    /\ UNCHANGED bootVars
    /\ reader.pc = "irq"
    /\ reader' = [reader EXCEPT !.pc = "dead"]
    /\ vm_alive' = AfterThreadPanic(vm_alive)
    /\ UNCHANGED <<rx_queue, tx_queue, writer, chan, irqs, tap_in, tap_out,
                   guest_rx, guest_tx, got, sent, tokens>>

(***************************************************************************)
(* The writer thread of UhyveNetwork::new (TX ring -> TAP).                *)
(***************************************************************************)
\* tx_queue.init()
WriterInit ==
    /\ vm_alive
    /\ UNCHANGED bootVars
    /\ writer.pc = "init"
    /\ tx_queue' = QueueInit(tx_queue)
    /\ writer' = [writer EXCEPT !.pc = "recv"]
    /\ UNCHANGED <<rx_queue, reader, chan, irqs, tap_in, tap_out, guest_rx,
                   guest_tx, got, sent, tokens, vm_alive>>

\* let _value = rx.recv(): blocks until the channel holds a token
WriterRecv ==
    /\ vm_alive
    /\ UNCHANGED bootVars
    /\ writer.pc = "recv"
    /\ chan > 0
    /\ chan' = chan - 1
    /\ tokens' = tokens + 1
    /\ writer' = [writer EXCEPT !.pc = "poll"]
    /\ UNCHANGED <<rx_queue, tx_queue, reader, irqs, tap_in, tap_out, guest_rx,
                   guest_tx, got, sent, vm_alive>>

\* let written = read_volatile(&tx_queue.written);
\* let read = read_volatile(&tx_queue.read);
\* let distance = written - read;
\* if distance > 0 { let idx = read % UHYVE_QUEUE_SIZE; .. }
\* and, with nothing pending, back to rx.recv()
\* (`read` is stored by this thread alone, so the one access that other
\* steps can interleave with is the load of `written`)
WriterPoll ==
    /\ vm_alive
    /\ UNCHANGED bootVars
    /\ writer.pc = "poll"
    /\ IF TxPending(tx_queue.written - tx_queue.read)
       THEN writer' = [writer EXCEPT !.pc = "load_len",
                                     !.written = tx_queue.written,
                                     !.read = tx_queue.read,
                                     !.idx = SlotIndex(tx_queue.read)]
       ELSE writer' = [writer EXCEPT !.pc = "recv",
                                     !.written = tx_queue.written,
                                     !.read = tx_queue.read]
    /\ UNCHANGED <<rx_queue, tx_queue, reader, chan, irqs, tap_in, tap_out,
                   guest_rx, guest_tx, got, sent, tokens, vm_alive>>

\* let len = read_volatile(&tx_queue.inner[idx].len)
WriterLoadLen ==
    /\ vm_alive
    /\ UNCHANGED bootVars
    /\ writer.pc = "load_len"
    /\ writer' = [writer EXCEPT !.pc = "send",
                                !.len = tx_queue.inner[writer.idx].len]
    /\ UNCHANGED <<rx_queue, tx_queue, reader, chan, irqs, tap_in, tap_out,
                   guest_rx, guest_tx, got, sent, tokens, vm_alive>>

\* iface_writer.send(&tx_queue.inner[idx].data[0..len]) returns Ok
WriterSend ==
    /\ vm_alive
    /\ UNCHANGED bootVars
    /\ writer.pc = "send"
    /\ tap_out' = Append(tap_out, [len |-> writer.len,
                                   data |-> tx_queue.inner[writer.idx].data])
    /\ writer' = [writer EXCEPT !.pc = "store_read"]
    /\ UNCHANGED <<rx_queue, tx_queue, reader, chan, irqs, tap_in, guest_rx,
                   guest_tx, got, sent, tokens, vm_alive>>

\* iface_writer.send(..) returns Err: expect("Send on TUN/TAP device failed!")
WriterSendFail ==
    /\ vm_alive
    /\ UNCHANGED bootVars
    /\ writer.pc = "send"
    /\ writer' = [writer EXCEPT !.pc = "dead"]
    /\ vm_alive' = AfterThreadPanic(vm_alive)
    /\ UNCHANGED <<rx_queue, tx_queue, reader, chan, irqs, tap_in, tap_out,
                   guest_rx, guest_tx, got, sent, tokens>>

\* write_volatile(&mut tx_queue.read, read + 1), then the next loop round
WriterStoreRead ==
    /\ vm_alive
    /\ UNCHANGED bootVars
    /\ writer.pc = "store_read"
    /\ tx_queue' = [tx_queue EXCEPT !.read = NextIndex(writer.read)]
    /\ writer' = [writer EXCEPT !.pc = "recv"]
    /\ UNCHANGED <<rx_queue, reader, chan, irqs, tap_in, tap_out, guest_rx,
                   guest_tx, got, sent, tokens, vm_alive>>

(***************************************************************************)
(* The guest side of the rings.  The guest driver is not part of the       *)
(* host's source; it is the well-behaved single consumer of the RX ring    *)
(* and single producer of the TX ring that the ring contract asks for,     *)
(* and it touches a ring only after the host thread has initialised it.    *)
(***************************************************************************)
\* the consumer looks at `written`; with a packet pending it goes on to copy
GuestRxCheck ==
    /\ vm_alive
    /\ UNCHANGED bootVars
    /\ reader.pc # "init"
    /\ guest_rx.pc = "check"
    /\ rx_queue.written > rx_queue.read
    /\ guest_rx' = [guest_rx EXCEPT !.pc = "copy",
                                    !.idx = SlotIndex(rx_queue.read)]
    /\ UNCHANGED <<rx_queue, tx_queue, reader, writer, chan, irqs, tap_in,
                   tap_out, guest_tx, got, sent, tokens, vm_alive>>

\* the consumer copies len and data out of slot read mod QUEUE_SIZE
GuestRxCopy ==
    /\ vm_alive
    /\ UNCHANGED bootVars
    /\ guest_rx.pc = "copy"
    /\ got' = Append(got, [len |-> rx_queue.inner[guest_rx.idx].len,
                           data |-> rx_queue.inner[guest_rx.idx].data])
    /\ guest_rx' = [guest_rx EXCEPT !.pc = "bump"]
    /\ UNCHANGED <<rx_queue, tx_queue, reader, writer, chan, irqs, tap_in,
                   tap_out, guest_tx, sent, tokens, vm_alive>>

\* the consumer releases the slot: read + 1
GuestRxBump ==
    /\ vm_alive
    /\ UNCHANGED bootVars
    /\ guest_rx.pc = "bump"
    /\ rx_queue' = [rx_queue EXCEPT !.read = rx_queue.read + 1]
    /\ guest_rx' = [guest_rx EXCEPT !.pc = "check"]
    /\ UNCHANGED <<tx_queue, reader, writer, chan, irqs, tap_in, tap_out,
                   guest_tx, got, sent, tokens, vm_alive>>

\* the producer finds a free slot (written - read < QUEUE_SIZE) and fills it
GuestTxFill ==
    /\ vm_alive
    /\ UNCHANGED bootVars
    /\ writer.pc # "init"
    /\ guest_tx.pc = "fill"
    /\ Len(sent) < MaxTx
    /\ tx_queue.written - tx_queue.read < UHYVE_QUEUE_SIZE
    /\ \E l \in 1 .. MaxLen :
         LET idx == SlotIndex(tx_queue.written) IN
           /\ tx_queue' = [tx_queue EXCEPT
                             !.inner[idx] = [len |-> l, data |-> Len(sent) + 1]]
           /\ guest_tx' = [guest_tx EXCEPT !.pc = "publish", !.len = l]
    /\ UNCHANGED <<rx_queue, reader, writer, chan, irqs, tap_in, tap_out,
                   guest_rx, got, sent, tokens, vm_alive>>

\* the producer publishes the slot: written + 1
GuestTxPublish ==
    /\ vm_alive
    /\ UNCHANGED bootVars
    /\ guest_tx.pc = "publish"
    /\ sent' = Append(sent, [len |-> guest_tx.len, data |-> Len(sent) + 1])
    /\ tx_queue' = [tx_queue EXCEPT !.written = tx_queue.written + 1]
    /\ guest_tx' = [guest_tx EXCEPT !.pc = "notify"]
    /\ UNCHANGED <<rx_queue, reader, writer, chan, irqs, tap_in, tap_out,
                   guest_rx, got, tokens, vm_alive>>

\* the vCPU wakes the writer through the capacity-1 channel; a token that
\* finds one already waiting coalesces with it
GuestTxNotify ==
    /\ vm_alive
    /\ UNCHANGED bootVars
    /\ guest_tx.pc = "notify"
    /\ chan' = IF writer.pc = "dead" THEN chan ELSE 1
    /\ guest_tx' = [guest_tx EXCEPT !.pc = "fill"]
    /\ UNCHANGED <<rx_queue, tx_queue, reader, writer, irqs, tap_in, tap_out,
                   guest_rx, got, sent, tokens, vm_alive>>

(***************************************************************************)
(* Constants of the start-up path, in MiB.                                 *)
(***************************************************************************)
\* const MINIMAL_GUEST_SIZE: usize = 16 * 1024 * 1024
MINIMAL_GUEST_SIZE == 16
\* const DEFAULT_GUEST_SIZE: usize = 64 * 1024 * 1024
DEFAULT_GUEST_SIZE == 64
\* const KVM_32BIT_MAX_MEM_SIZE: usize = 1 << 32
KVM_32BIT_MAX_MEM_SIZE == 4096
\* const KVM_32BIT_GAP_SIZE: usize = 768 << 20
KVM_32BIT_GAP_SIZE == 768
\* const KVM_32BIT_GAP_START: usize = KVM_32BIT_MAX_MEM_SIZE - KVM_32BIT_GAP_SIZE
KVM_32BIT_GAP_START == KVM_32BIT_MAX_MEM_SIZE - KVM_32BIT_GAP_SIZE

(***************************************************************************)
(* Inputs of the start-up path.                                            *)
(***************************************************************************)
\* requests of 1 .. MaxSmallMiB MiB: around the 16 MiB minimum
MaxSmallMiB == 17
\* requests around every multiple of 256 MiB up to MaxQuarterGiB * 256 MiB
MaxQuarterGiB == 32
\* host cores 0 .. MaxCore are the ones the process may run on
MaxCore == 1

MemRequests ==
    (1 .. MaxSmallMiB)
      \cup {q * 256 + d : q \in 1 .. MaxQuarterGiB, d \in {-1, 0, 1}}

HostCores == 0 .. MaxCore

AffinityLists == {{0}, {0, 1}, {MaxCore, MaxCore + 1}}

\* where mmap may put the guest memory (MiB)
HostBases == {8192, 1048576}

(***************************************************************************)
(* main: the guest memory size.                                            *)
(***************************************************************************)
GuestSizeNoClamp(request) ==
    IF request = None THEN DEFAULT_GUEST_SIZE ELSE Unwrap(request)

\* .map(|s| if mem < MINIMAL_GUEST_SIZE { MINIMAL_GUEST_SIZE } else { mem })
\* .unwrap_or(DEFAULT_GUEST_SIZE)
GuestSize(request) ==
    IF request = None THEN DEFAULT_GUEST_SIZE
    ELSE IF Unwrap(request) < MINIMAL_GUEST_SIZE THEN MINIMAL_GUEST_SIZE
         ELSE Unwrap(request)

\* the branch that emits warn!("Resize guest memory to {}")
ResizeWarned(request) ==
    request # None /\ Unwrap(request) < MINIMAL_GUEST_SIZE

\* core_affinity::get_core_ids() filtered by the parsed affinity list
SelectCores(affinity) == {c \in HostCores : c \in affinity}

AffinityMatchesOff(ids, cpus) == TRUE

\* assert_eq!(core_ids.len(), num_cpus as usize)
AffinityMatches(ids, cpus) == Cardinality(ids) = cpus

(***************************************************************************)
(* Uhyve::new: the memory regions.                                         *)
(***************************************************************************)
Region0SizeWhole(size) == size

\* let sz = if specs.mem_size < KVM_32BIT_GAP_START { .. } else { .. }
Region0Size(size) ==
    IF size < KVM_32BIT_GAP_START THEN size ELSE KVM_32BIT_GAP_START

\* kvm_userspace_memory_region { slot: 0, .. }
Region0(m) ==
    [slot |-> 0, flags |-> m.flags, memory_size |-> Region0Size(m.memory_size),
     guest_phys_addr |-> m.guest_address, userspace_addr |-> m.host_address]

HasRegion1Early(size) == size > KVM_32BIT_GAP_START

\* if specs.mem_size > KVM_32BIT_GAP_START + KVM_32BIT_GAP_SIZE
HasRegion1(size) == size > KVM_32BIT_GAP_START + KVM_32BIT_GAP_SIZE

Region1Packed(m) ==
    [slot |-> 1, flags |-> m.flags,
     memory_size |-> m.memory_size - KVM_32BIT_GAP_START - KVM_32BIT_GAP_SIZE,
     guest_phys_addr |-> m.guest_address + KVM_32BIT_GAP_START + KVM_32BIT_GAP_SIZE,
     userspace_addr |-> m.host_address + KVM_32BIT_GAP_START]

\* kvm_userspace_memory_region { slot: 1, .. }
Region1(m) ==
    [slot |-> 1, flags |-> m.flags,
     memory_size |-> m.memory_size - KVM_32BIT_GAP_START - KVM_32BIT_GAP_SIZE,
     guest_phys_addr |-> m.guest_address + KVM_32BIT_GAP_START + KVM_32BIT_GAP_SIZE,
     userspace_addr |-> m.host_address + KVM_32BIT_GAP_START + KVM_32BIT_GAP_SIZE]

GdbAllowedOff(gdbport, cpus) == TRUE

\* assert!(specs.gdbport.is_none() || specs.num_cpus == 1, ..)
GdbAllowed(gdbport, cpus) == gdbport = None \/ cpus = 1

(***************************************************************************)
(* main, up to the call of Uhyve::new.                                     *)
(***************************************************************************)
\* let mem_size: usize = matches.value_of("MEM").map(..).unwrap_or(..)
MainMemSize ==
    /\ pc = "mem"
    /\ mem_size' = GuestSize(args.mem)
    /\ warned' = ResizeWarned(args.mem)
    /\ pc' = "cpus"
    /\ UNCHANGED <<args, num_cpus, core_ids, params, vm, mem, regions, failed,
                   passed, uhyve_device, result, vcpus,
                   cpu_tx>>
    /\ UNCHANGED ringVars

\* let num_cpus = matches.value_of("CPUS").map(..).flatten().unwrap_or(1)
MainNumCpus ==
    /\ pc = "cpus"
    /\ num_cpus' = IF args.cpus = None THEN 1 ELSE Unwrap(args.cpus)
    /\ pc' = "affinity"
    /\ UNCHANGED <<args, mem_size, warned, core_ids, params, vm, mem, regions,
                   failed, passed, uhyve_device, result, vcpus,
                   cpu_tx>>
    /\ UNCHANGED ringVars

\* let cpu_affinity = matches.values_of("CPU_AFFINITY").map(|affinity| {..})
\* the closure runs here; its assert_eq! panics on a count mismatch
MainAffinity ==
    /\ pc = "affinity"
    /\ IF args.affinity = None
       THEN /\ core_ids' = None
            /\ pc' = "params"
       ELSE IF AffinityMatches(SelectCores(Unwrap(args.affinity)), num_cpus)
            THEN /\ core_ids' = Some(SelectCores(Unwrap(args.affinity)))
                 /\ pc' = "params"
            ELSE /\ core_ids' = core_ids
                 /\ pc' = "panicked"
    /\ UNCHANGED <<args, mem_size, warned, num_cpus, params, vm, mem, regions,
                   failed, passed, uhyve_device, result, vcpus,
                   cpu_tx>>
    /\ UNCHANGED ringVars

\* let nic = None; .. let gdbport = ..; let params = vm::Parameter { .. }
MainParams ==
    /\ pc = "params"
    /\ params' = [mem_size |-> mem_size, num_cpus |-> num_cpus, nic |-> NoNic,
                  gdbport |-> args.gdb]
    /\ pc' = "create_vm"
    /\ UNCHANGED <<args, mem_size, warned, num_cpus, core_ids, vm, mem, regions,
                   failed, passed, uhyve_device, result, vcpus,
                   cpu_tx>>
    /\ UNCHANGED ringVars

(***************************************************************************)
(* Uhyve::new.  A `?` returns Err to the caller, a failed expect, unwrap   *)
(* or assert panics on the calling thread.                                 *)
(***************************************************************************)
\* where Uhyve::new hands its result
Return == IF args.entry = "main" THEN "expect" ELSE "returned"

\* let vm = KVM.create_vm()?
NewCreateVm ==
    /\ pc = "create_vm"
    /\ \E ok \in BOOLEAN :
         IF ok
         THEN /\ vm' = TRUE
              /\ passed' = passed \cup {"create_vm"}
              /\ pc' = "mmap"
              /\ UNCHANGED <<failed, result>>
         ELSE /\ failed' = failed \cup {"create_vm"}
              /\ result' = "Err"
              /\ pc' = Return
              /\ UNCHANGED <<vm, passed>>
    /\ UNCHANGED <<args, mem_size, warned, num_cpus, core_ids, params, mem,
                   regions, uhyve_device, vcpus,
                   cpu_tx>>
    /\ UNCHANGED ringVars

\* let mem = MmapMemory::new(0, specs.mem_size, 0, ..): mmap(..).expect(..)
NewMmap ==
    /\ pc = "mmap"
    /\ \/ \E base \in HostBases :
            /\ mem' = Some([flags |-> 0, memory_size |-> params.mem_size,
                            guest_address |-> 0, host_address |-> base])
            /\ passed' = passed \cup {"mmap"}
            /\ pc' = "region0"
            /\ UNCHANGED <<failed, result>>
       \/ /\ failed' = failed \cup {"mmap"}
          /\ result' = "Panic"
          /\ pc' = "panicked"
          /\ UNCHANGED <<mem, passed>>
    /\ UNCHANGED <<args, mem_size, warned, num_cpus, core_ids, params, vm,
                   regions, uhyve_device, vcpus,
                   cpu_tx>>
    /\ UNCHANGED ringVars

\* unsafe { vm.set_user_memory_region(kvm_mem) }?  for slot 0
NewRegion0 ==
    /\ pc = "region0"
    /\ \E ok \in BOOLEAN :
         IF ok
         THEN /\ regions' = regions \cup {Region0(Unwrap(mem))}
              /\ passed' = passed \cup {"region0"}
              /\ pc' = "region1"
              /\ UNCHANGED <<failed, result>>
         ELSE /\ failed' = failed \cup {"region0"}
              /\ result' = "Err"
              /\ pc' = Return
              /\ UNCHANGED <<regions, passed>>
    /\ UNCHANGED <<args, mem_size, warned, num_cpus, core_ids, params, vm, mem,
                   uhyve_device, vcpus,
                   cpu_tx>>
    /\ UNCHANGED ringVars

\* if specs.mem_size > KVM_32BIT_GAP_START + KVM_32BIT_GAP_SIZE {
\*     unsafe { vm.set_user_memory_region(kvm_mem) }?  for slot 1 }
NewRegion1 ==
    /\ pc = "region1"
    /\ HasRegion1(params.mem_size)
    /\ \E ok \in BOOLEAN :
         IF ok
         THEN /\ regions' = regions \cup {Region1(Unwrap(mem))}
              /\ passed' = passed \cup {"region1"}
              /\ pc' = "irq_chip"
              /\ UNCHANGED <<failed, result>>
         ELSE /\ failed' = failed \cup {"region1"}
              /\ result' = "Err"
              /\ pc' = Return
              /\ UNCHANGED <<regions, passed>>
    /\ UNCHANGED <<args, mem_size, warned, num_cpus, core_ids, params, vm, mem,
                   uhyve_device, vcpus,
                   cpu_tx>>
    /\ UNCHANGED ringVars

\* the if above is not taken
NewNoRegion1 ==
    /\ pc = "region1"
    /\ ~HasRegion1(params.mem_size)
    /\ pc' = "irq_chip"
    /\ UNCHANGED <<args, mem_size, warned, num_cpus, core_ids, params, vm, mem,
                   regions, failed, passed, uhyve_device, result, vcpus,
                   cpu_tx>>
    /\ UNCHANGED ringVars

\* vm.create_irq_chip()?
NewIrqChip ==
    /\ pc = "irq_chip"
    /\ \E ok \in BOOLEAN :
         IF ok
         THEN /\ passed' = passed \cup {"irq_chip"}
              /\ pc' = "x2apic"
              /\ UNCHANGED <<failed, result>>
         ELSE /\ failed' = failed \cup {"irq_chip"}
              /\ result' = "Err"
              /\ pc' = Return
              /\ UNCHANGED passed
    /\ UNCHANGED <<args, mem_size, warned, num_cpus, core_ids, params, vm, mem,
                   regions, uhyve_device, vcpus,
                   cpu_tx>>
    /\ UNCHANGED ringVars

\* vm.enable_cap(&cap).expect("Unable to enable x2apic support")
NewCapX2apic ==
    /\ pc = "x2apic"
    /\ \E ok \in BOOLEAN :
         IF ok
         THEN /\ passed' = passed \cup {"x2apic"}
              /\ pc' = "tsc_deadline"
              /\ UNCHANGED <<failed, result>>
         ELSE /\ failed' = failed \cup {"x2apic"}
              /\ result' = "Panic"
              /\ pc' = "panicked"
              /\ UNCHANGED passed
    /\ UNCHANGED <<args, mem_size, warned, num_cpus, core_ids, params, vm, mem,
                   regions, uhyve_device, vcpus,
                   cpu_tx>>
    /\ UNCHANGED ringVars

\* vm.enable_cap(&cap).expect_err("Processor feature `tsc deadline` ..")
\* expect_err panics when the call returns Ok
NewCapTscDeadline ==
    /\ pc = "tsc_deadline"
    /\ \E ok \in BOOLEAN :
         IF ok
         THEN /\ passed' = passed \cup {"tsc_deadline"}
              /\ result' = "Panic"
              /\ pc' = "panicked"
              /\ UNCHANGED failed
         ELSE /\ failed' = failed \cup {"tsc_deadline"}
              /\ pc' = "cap_irqfd"
              /\ UNCHANGED <<passed, result>>
    /\ UNCHANGED <<args, mem_size, warned, num_cpus, core_ids, params, vm, mem,
                   regions, uhyve_device, vcpus,
                   cpu_tx>>
    /\ UNCHANGED ringVars

\* vm.enable_cap(&cap).expect_err("The support of KVM_CAP_IRQFD is ..")
NewCapIrqfd ==
    /\ pc = "cap_irqfd"
    /\ \E ok \in BOOLEAN :
         IF ok
         THEN /\ passed' = passed \cup {"cap_irqfd"}
              /\ result' = "Panic"
              /\ pc' = "panicked"
              /\ UNCHANGED failed
         ELSE /\ failed' = failed \cup {"cap_irqfd"}
              /\ pc' = "disable_exits"
              /\ UNCHANGED <<passed, result>>
    /\ UNCHANGED <<args, mem_size, warned, num_cpus, core_ids, params, vm, mem,
                   regions, uhyve_device, vcpus,
                   cpu_tx>>
    /\ UNCHANGED ringVars

\* vm.enable_cap(&cap).expect("Unable to disable exists due pause instructions")
NewCapDisableExits ==
    /\ pc = "disable_exits"
    /\ \E ok \in BOOLEAN :
         IF ok
         THEN /\ passed' = passed \cup {"disable_exits"}
              /\ pc' = "eventfd"
              /\ UNCHANGED <<failed, result>>
         ELSE /\ failed' = failed \cup {"disable_exits"}
              /\ result' = "Panic"
              /\ pc' = "panicked"
              /\ UNCHANGED passed
    /\ UNCHANGED <<args, mem_size, warned, num_cpus, core_ids, params, vm, mem,
                   regions, uhyve_device, vcpus,
                   cpu_tx>>
    /\ UNCHANGED ringVars

\* let evtfd = EventFd::new(0).unwrap()
NewEventFd ==
    /\ pc = "eventfd"
    /\ \E ok \in BOOLEAN :
         IF ok
         THEN /\ passed' = passed \cup {"eventfd"}
              /\ pc' = "register_irqfd"
              /\ UNCHANGED <<failed, result>>
         ELSE /\ failed' = failed \cup {"eventfd"}
              /\ result' = "Panic"
              /\ pc' = "panicked"
              /\ UNCHANGED passed
    /\ UNCHANGED <<args, mem_size, warned, num_cpus, core_ids, params, vm, mem,
                   regions, uhyve_device, vcpus,
                   cpu_tx>>
    /\ UNCHANGED ringVars

\* vm.register_irqfd(&evtfd, UHYVE_IRQ_NET)?
NewRegisterIrqfd ==
    /\ pc = "register_irqfd"
    /\ \E ok \in BOOLEAN :
         IF ok
         THEN /\ passed' = passed \cup {"register_irqfd"}
              /\ pc' = "nic"
              /\ UNCHANGED <<failed, result>>
         ELSE /\ failed' = failed \cup {"register_irqfd"}
              /\ result' = "Err"
              /\ pc' = Return
              /\ UNCHANGED passed
    /\ UNCHANGED <<args, mem_size, warned, num_cpus, core_ids, params, vm, mem,
                   regions, uhyve_device, vcpus,
                   cpu_tx>>
    /\ UNCHANGED ringVars

\* a thread that was spawned and has not run yet
ThreadStart == [pc |-> "init", written |-> 0, read |-> 0, idx |-> 0, len |-> 0]

\* no thread
NoThread == [pc |-> "none", written |-> 0, read |-> 0, idx |-> 0, len |-> 0]

\* match &specs.nic { Some(nic) => Some(UhyveNetwork::new(evtfd, .., ..)) }
\* Iface::without_packet_info(..).expect(..), then both threads are spawned
NewNetwork ==
    /\ pc = "nic"
    /\ params.nic # NoNic
    /\ \E ok \in BOOLEAN :
         IF ok
         THEN /\ passed' = passed \cup {"tap"}
              /\ reader' = ThreadStart
              /\ writer' = ThreadStart
              /\ uhyve_device' = TRUE
              /\ pc' = "gdb"
              /\ UNCHANGED <<failed, result>>
         ELSE /\ failed' = failed \cup {"tap"}
              /\ result' = "Panic"
              /\ pc' = "panicked"
              /\ UNCHANGED <<passed, reader, writer, uhyve_device>>
    /\ UNCHANGED <<args, mem_size, warned, num_cpus, core_ids, params, vm, mem,
                   regions, vcpus,
                   cpu_tx>>
    /\ UNCHANGED <<rx_queue, tx_queue, chan, irqs, tap_in, tap_out, guest_rx,
                   guest_tx, got, sent, tokens, vm_alive>>

\* match &specs.nic { _ => None }
NewNoNetwork ==
    /\ pc = "nic"
    /\ params.nic = NoNic
    /\ pc' = "gdb"
    /\ UNCHANGED <<args, mem_size, warned, num_cpus, core_ids, params, vm, mem,
                   regions, failed, passed, uhyve_device, result, vcpus,
                   cpu_tx>>
    /\ UNCHANGED ringVars

\* assert!(specs.gdbport.is_none() || specs.num_cpus == 1, ..)
NewAssertGdb ==
    /\ pc = "gdb"
    /\ IF GdbAllowed(params.gdbport, params.num_cpus)
       THEN /\ pc' = "finish"
            /\ UNCHANGED result
       ELSE /\ pc' = "panicked"
            /\ result' = "Panic"
    /\ UNCHANGED <<args, mem_size, warned, num_cpus, core_ids, params, vm, mem,
                   regions, failed, passed, uhyve_device, vcpus,
                   cpu_tx>>
    /\ UNCHANGED ringVars

\* let hyve = Uhyve { .. }; hyve.init_guest_mem(); Ok(hyve)
NewFinish ==
    /\ pc = "finish"
    /\ result' = "Ok"
    /\ pc' = Return
    /\ UNCHANGED <<args, mem_size, warned, num_cpus, core_ids, params, vm, mem,
                   regions, failed, passed, uhyve_device, vcpus,
                   cpu_tx>>
    /\ UNCHANGED ringVars

(***************************************************************************)
(* main, after Uhyve::new.                                                 *)
(***************************************************************************)
\* Uhyve::new(path, &params).expect("Unable to create VM! ..")
MainExpect ==
    /\ pc = "expect"
    /\ pc' = IF result = "Ok" THEN "run" ELSE "panicked"
    /\ UNCHANGED <<args, mem_size, warned, num_cpus, core_ids, params, vm, mem,
                   regions, failed, passed, uhyve_device, result, vcpus,
                   cpu_tx>>
    /\ UNCHANGED ringVars

\* Uhyve::create_cpu: let tx = self.uhyve_device.as_ref().map(|dev| dev.tx.clone())
CreateCpuTx(device) == IF device THEN Some("tx") ELSE None

\* the vCPUs 0 .. num_cpus - 1, each with the tx create_cpu gives it
CreatedCpus(n, device) == [id \in 0 .. (n - 1) |-> CreateCpuTx(device)]

\* .run(cpu_affinity): one vCPU per configured core is created and started
MainRun ==
    /\ pc = "run"
    /\ vcpus' = params.num_cpus
    /\ cpu_tx' = CreatedCpus(params.num_cpus, uhyve_device)
    /\ pc' = "running"
    /\ UNCHANGED <<args, mem_size, warned, num_cpus, core_ids, params, vm, mem,
                   regions, failed, passed, uhyve_device, result>>
    /\ UNCHANGED ringVars

\* a library caller that got Ok(vm) creates and starts the vCPUs itself
LibRun ==
    /\ args.entry = "lib"
    /\ pc = "returned"
    /\ result = "Ok"
    /\ vcpus' = params.num_cpus
    /\ cpu_tx' = CreatedCpus(params.num_cpus, uhyve_device)
    /\ pc' = "running"
    /\ UNCHANGED <<args, mem_size, warned, num_cpus, core_ids, params, vm, mem,
                   regions, failed, passed, uhyve_device, result>>
    /\ UNCHANGED ringVars

(***************************************************************************)
(* The bridge right after UhyveNetwork::new: both threads are spawned and  *)
(* have not run yet, the channel is empty, guest memory is zero.  The VM   *)
(* around it was built with a NIC and is running.                          *)
(***************************************************************************)
BuiltMem ==
    [flags |-> 0, memory_size |-> DEFAULT_GUEST_SIZE, guest_address |-> 0,
     host_address |-> 8192]

BuiltVm ==
    /\ args = [entry |-> "lib", mem |-> Some(DEFAULT_GUEST_SIZE),
               cpus |-> Some(1), affinity |-> None, gdb |-> None,
               nic |-> "tap0"]
    /\ pc = "running"
    /\ mem_size = 0
    /\ warned = FALSE
    /\ num_cpus = 0
    /\ core_ids = None
    /\ params = [mem_size |-> DEFAULT_GUEST_SIZE, num_cpus |-> 1,
                 nic |-> "tap0", gdbport |-> None]
    /\ vm = TRUE
    /\ mem = Some(BuiltMem)
    /\ regions = {Region0(BuiltMem)}
    /\ failed = {"tsc_deadline", "cap_irqfd"}
    /\ passed = {"create_vm", "mmap", "region0", "irq_chip", "x2apic",
                 "disable_exits", "eventfd", "register_irqfd", "tap"}
    /\ uhyve_device = TRUE
    /\ result = "Ok"
    /\ vcpus = 1
    /\ cpu_tx = CreatedCpus(1, TRUE)

Init ==
    /\ rx_queue = FreshQueue
    /\ tx_queue = FreshQueue
    /\ reader = ThreadStart
    /\ writer = ThreadStart
    /\ chan = 0
    /\ irqs = 0
    /\ tap_in = <<>>
    /\ tap_out = <<>>
    /\ guest_rx = [pc |-> "check", idx |-> 0]
    /\ guest_tx = [pc |-> "fill", len |-> 0]
    /\ got = <<>>
    /\ sent = <<>>
    /\ tokens = 0
    /\ vm_alive = TRUE
    /\ BuiltVm

Next ==
    \/ ReaderInit
    \/ ReaderPoll
    \/ ReaderRecv
    \/ ReaderRecvFail
    \/ ReaderStoreLen
    \/ ReaderStoreWritten
    \/ ReaderIrq
    \/ ReaderIrqFail
    \/ WriterInit
    \/ WriterRecv
    \/ WriterPoll
    \/ WriterLoadLen
    \/ WriterSend
    \/ WriterSendFail
    \/ WriterStoreRead
    \/ GuestRxCheck
    \/ GuestRxCopy
    \/ GuestRxBump
    \/ GuestTxFill
    \/ GuestTxPublish
    \/ GuestTxNotify

Spec == Init /\ [][Next]_vars

(***************************************************************************)
(* The start-up path: main with a command line, or a library caller of     *)
(* Uhyve::new with a Parameter of its own.                                 *)
(***************************************************************************)
\* largest --cpus value tried
MaxCpus == 2

GdbPorts == {None, Some(1234)}

Nics == {NoNic, "tap0"}

MainArgs ==
    [entry : {"main"}, mem : {None} \cup {Some(m) : m \in MemRequests},
     cpus : {None} \cup {Some(c) : c \in 0 .. MaxCpus},
     affinity : {None} \cup {Some(a) : a \in AffinityLists},
     gdb : GdbPorts, nic : Nics]

LibArgs ==
    [entry : {"lib"}, mem : {Some(m) : m \in MemRequests},
     cpus : {Some(c) : c \in 0 .. MaxCpus},
     affinity : {None}, gdb : GdbPorts, nic : Nics]

NoParams == [mem_size |-> 0, num_cpus |-> 0, nic |-> NoNic, gdbport |-> None]

InitBoot ==
    /\ args \in MainArgs \cup LibArgs
    /\ pc = IF args.entry = "main" THEN "mem" ELSE "create_vm"
    /\ params = IF args.entry = "main" THEN NoParams
                ELSE [mem_size |-> Unwrap(args.mem),
                      num_cpus |-> Unwrap(args.cpus),
                      nic |-> args.nic, gdbport |-> args.gdb]
    /\ mem_size = 0
    /\ warned = FALSE
    /\ num_cpus = 0
    /\ core_ids = None
    /\ vm = FALSE
    /\ mem = None
    /\ regions = {}
    /\ failed = {}
    /\ passed = {}
    /\ uhyve_device = FALSE
    /\ result = "none"
    /\ vcpus = 0
    /\ cpu_tx = <<>>
    /\ rx_queue = FreshQueue
    /\ tx_queue = FreshQueue
    /\ reader = NoThread
    /\ writer = NoThread
    /\ chan = 0
    /\ irqs = 0
    /\ tap_in = <<>>
    /\ tap_out = <<>>
    /\ guest_rx = [pc |-> "check", idx |-> 0]
    /\ guest_tx = [pc |-> "fill", len |-> 0]
    /\ got = <<>>
    /\ sent = <<>>
    /\ tokens = 0
    /\ vm_alive = TRUE

NextBoot ==
    \/ MainMemSize
    \/ MainNumCpus
    \/ MainAffinity
    \/ MainParams
    \/ NewCreateVm
    \/ NewMmap
    \/ NewRegion0
    \/ NewRegion1
    \/ NewNoRegion1
    \/ NewIrqChip
    \/ NewCapX2apic
    \/ NewCapTscDeadline
    \/ NewCapIrqfd
    \/ NewCapDisableExits
    \/ NewEventFd
    \/ NewRegisterIrqfd
    \/ NewNetwork
    \/ NewNoNetwork
    \/ NewAssertGdb
    \/ NewFinish
    \/ MainExpect
    \/ MainRun
    \/ LibRun

SpecBoot == InitBoot /\ [][NextBoot]_vars

(***************************************************************************)
(* Properties of the bridge (specification Spec).                          *)
(***************************************************************************)
IsPrefix(a, b) == Len(a) <= Len(b) /\ \A i \in 1 .. Len(a) : a[i] = b[i]

\* packets the reader took from the TAP device and has not published yet
RxInFlight == IF reader.pc \in {"store_len", "store_written"} THEN 1 ELSE 0

\* packets the consumer copied out of a slot it has not released yet
RxCopied == IF guest_rx.pc = "bump" THEN 1 ELSE 0

\* C1: on the RX ring the packets the consumer reads (length and content)
\* are, in order, the packets received from the TAP device: what was read
\* is a prefix of what was received, every received packet is published
\* under the index of its arrival, the consumer has read exactly the packets
\* below `read`, and once it has caught up it has read all of them.
C1_RxFifo ==
    /\ IsPrefix(got, tap_in)
    /\ Len(tap_in) = rx_queue.written + RxInFlight
    /\ Len(got) = rx_queue.read + RxCopied
    /\ (rx_queue.read = rx_queue.written /\ RxInFlight = 0) => got = tap_in

\* C1 witness: the consumer has drained MaxRx packets through the ring
C1_Witness ==
    /\ Len(got) = MaxRx
    /\ got = tap_in
    /\ rx_queue.read = MaxRx

\* C2: on both rings written >= read and written - read <= QUEUE_SIZE
C2_RingBounds ==
    /\ rx_queue.written >= rx_queue.read
    /\ rx_queue.written - rx_queue.read <= UHYVE_QUEUE_SIZE
    /\ tx_queue.written >= tx_queue.read
    /\ tx_queue.written - tx_queue.read <= UHYVE_QUEUE_SIZE

\* C2 witness: the RX ring is full while the writer thread has caught up
\* with everything the guest transmitted
C2_Witness ==
    /\ rx_queue.written - rx_queue.read = UHYVE_QUEUE_SIZE
    /\ tx_queue.read = tx_queue.written
    /\ tx_queue.read = MaxTx
    /\ writer.pc = "recv"

\* C3 (as claimed): once the producer has stopped, every packet it put in
\* the TX ring is sent to the TAP device.  In a state where the producer is
\* done, the channel is empty and the writer thread waits on it, nothing
\* can change any more, so the ring has to be empty there.
C3_AllDelivered ==
    (/\ Len(sent) = MaxTx
     /\ guest_tx.pc = "fill"
     /\ chan = 0
     /\ writer.pc = "recv")
    => (tx_queue.read = tx_queue.written /\ Len(tap_out) = Len(sent))

\* C10: a TAP receive or send failure ends the bridge thread it happens in
\* and nothing else: the step leaves the other bridge thread, the vCPUs,
\* the guest and the process as they were, and the process alive.
C10_TapFailureIsLocal ==
    [][/\ (reader.pc # "dead" /\ reader'.pc = "dead")
            => (writer' = writer /\ vm_alive' /\ vcpus' = vcpus
                /\ guest_rx' = guest_rx /\ guest_tx' = guest_tx)
       /\ (writer.pc # "dead" /\ writer'.pc = "dead")
            => (reader' = reader /\ vm_alive' /\ vcpus' = vcpus
                /\ guest_rx' = guest_rx /\ guest_tx' = guest_tx)]_vars

\* C10 witness: the reader thread is dead while the writer thread has just
\* sent the last packet of the guest and the vCPU is alive
C10_Witness ==
    /\ reader.pc = "dead"
    /\ writer.pc = "store_read"
    /\ Len(tap_out) = MaxTx
    /\ vm_alive
    /\ vcpus > 0

(***************************************************************************)
(* Properties of the start-up path (specification SpecBoot).               *)
(***************************************************************************)
\* guest-physical extent of the installed regions: <<slot, first, end>>
GuestRanges ==
    {<<r.slot, r.guest_phys_addr, r.guest_phys_addr + r.memory_size>> :
        r \in regions}

\* the sizes the memory-layout property names: 16 MiB .. 8 GiB
LayoutSizes == {16, 256, 2048, 4096, 8192}

\* Uhyve::new has installed its regions and hands the VM to its caller
Installed == result = "Ok" /\ pc = Return

\* C4 (as claimed): one region [0, mem_size) up to 2^32 - 768 MiB, above it
\* slot 0 [0, 2^32 - 768 MiB) and slot 1 [2^32, mem_size + 768 MiB)
C4_AsClaimed ==
    (Installed /\ params.mem_size \in LayoutSizes) =>
        GuestRanges =
            IF params.mem_size <= KVM_32BIT_GAP_START
            THEN {<<0, 0, params.mem_size>>}
            ELSE {<<0, 0, KVM_32BIT_GAP_START>>,
                  <<1, KVM_32BIT_MAX_MEM_SIZE,
                    params.mem_size + KVM_32BIT_GAP_SIZE>>}

\* C4 (amended): one region, slot 0, [0, min(mem_size, 2^32 - 768 MiB)) for
\* mem_size up to 2^32; above 2^32 slot 0 [0, 2^32 - 768 MiB) and slot 1
\* [2^32, mem_size): the regions cover [0, mem_size) without the hole
C4_Regions ==
    Installed =>
        GuestRanges =
            IF params.mem_size <= KVM_32BIT_GAP_START
            THEN {<<0, 0, params.mem_size>>}
            ELSE IF params.mem_size <= KVM_32BIT_MAX_MEM_SIZE
            THEN {<<0, 0, KVM_32BIT_GAP_START>>}
            ELSE {<<0, 0, KVM_32BIT_GAP_START>>,
                  <<1, KVM_32BIT_MAX_MEM_SIZE, params.mem_size>>}

\* C4 witness: an 8 GiB VM was built with two regions
C4_Witness ==
    /\ Installed
    /\ params.mem_size = 8192
    /\ Cardinality(regions) = 2

\* Uhyve::guest_mem: (self.mem.host_address, self.mem.memory_size)
guest_mem == <<Unwrap(mem).host_address, Unwrap(mem).memory_size>>

InHole(gpa) == KVM_32BIT_GAP_START <= gpa /\ gpa < KVM_32BIT_MAX_MEM_SIZE

Covers(r, gpa) ==
    r.guest_phys_addr <= gpa /\ gpa < r.guest_phys_addr + r.memory_size

\* the host address KVM uses for a guest physical address of region r
HostAddr(r, gpa) == r.userspace_addr + (gpa - r.guest_phys_addr)

\* C5: every guest physical address below mem_size and outside the hole is
\* covered by an installed region, which maps it to host_base + gpa
C5_Translate ==
    Installed =>
        /\ \A gpa \in 0 .. (guest_mem[2] - 1) :
             InHole(gpa) \/
               \E r \in regions :
                  Covers(r, gpa) /\ HostAddr(r, gpa) = guest_mem[1] + gpa
        /\ \A r \in regions : r.userspace_addr - r.guest_phys_addr = guest_mem[1]

\* C5 witness: a VM larger than 4 GiB, whose memory lies on both sides of
\* the hole
C5_Witness ==
    /\ Installed
    /\ guest_mem[2] > KVM_32BIT_MAX_MEM_SIZE + 1
    /\ \E r \in regions : Covers(r, KVM_32BIT_MAX_MEM_SIZE + 1)

Max(a, b) == IF a >= b THEN a ELSE b

\* C6: main hands max(requested, 16 MiB) to the VM builder, 64 MiB without
\* a request, and warns exactly when the request was below 16 MiB
C6_Clamp ==
    (args.entry = "main" /\ pc \notin {"mem", "cpus", "affinity", "params",
                                      "panicked"}) =>
        /\ params.mem_size =
              IF args.mem = None THEN 64 ELSE Max(Unwrap(args.mem), 16)
        /\ warned <=> (args.mem # None /\ Unwrap(args.mem) < 16)

\* C6 witness: a request of 1 MiB reached Uhyve::new as 16 MiB, with a warning
C6_Witness ==
    /\ args.entry = "main"
    /\ args.mem = Some(1)
    /\ pc = "create_vm"
    /\ params.mem_size = 16
    /\ warned

\* the CPU count main works with, from the command line
RequestedCpus == IF args.cpus = None THEN 1 ELSE Unwrap(args.cpus)

AffinityMismatch ==
    /\ args.entry = "main"
    /\ args.affinity # None
    /\ Cardinality(Unwrap(args.affinity) \cap HostCores) # RequestedCpus

\* C7: with an affinity list that selects a number of permitted cores other
\* than num_cpus, the run never gets a VM handle, a guest memory mapping, a
\* bridge thread or a vCPU, and never enters Uhyve::new
C7_AffinityRejected ==
    AffinityMismatch =>
        /\ pc \in {"mem", "cpus", "affinity", "panicked"}
        /\ ~vm
        /\ mem = None
        /\ ~uhyve_device
        /\ reader.pc = "none" /\ writer.pc = "none"
        /\ vcpus = 0
        /\ result = "none"

\* C7 witness: --cpus 2 --affinity 0 has panicked in main
C7_Witness ==
    /\ args.entry = "main"
    /\ args.cpus = Some(2)
    /\ args.affinity = Some({0})
    /\ pc = "panicked"

\* C8: Uhyve::new yields no VM with a gdb port and num_cpus # 1, and such a
\* configuration never gets a vCPU
C8_GdbSingleCpu ==
    /\ result = "Ok" => (params.gdbport = None \/ params.num_cpus = 1)
    /\ (params.gdbport # None /\ params.num_cpus # 1) =>
           (vcpus = 0 /\ pc \notin {"finish", "run", "running"})

\* C8 witness: --cpus 2 --gdb_port 1234 got as far as the assertion of
\* Uhyve::new and was rejected there
C8_Witness ==
    /\ args.entry = "main"
    /\ params.gdbport = Some(1234)
    /\ params.num_cpus = 2
    /\ "register_irqfd" \in passed
    /\ result = "Panic"
    /\ pc = "panicked"

\* the host calls that C9 names
CapabilityCalls == {"create_vm", "region0", "region1", "irq_chip", "x2apic",
                    "tsc_deadline", "cap_irqfd", "disable_exits",
                    "register_irqfd"}

\* C9 (as claimed): a failure of one of the host calls makes Uhyve::new
\* return Err (it neither goes on nor panics), and Uhyve::new returns Ok
\* when none of its host calls failed
C9_HostErrors ==
    /\ (failed \cap CapabilityCalls # {}) => result = "Err"
    /\ (result # "none" /\ failed = {}) => result = "Ok"

\* C11 (as claimed): the nic option decides whether networking exists.  In
\* a VM that runs, a TAP interface name given by the caller (--nic or
\* HERMIT_NETIF for main) means that the bridge threads were started and
\* every created vCPU holds a clone of the wake-channel sender; without a
\* name no bridge thread exists and no vCPU has a sender.
C11_NicDecides ==
    pc = "running" =>
        IF args.nic # NoNic
        THEN /\ uhyve_device
             /\ reader.pc # "none" /\ writer.pc # "none"
             /\ \A id \in DOMAIN cpu_tx : cpu_tx[id] # None
        ELSE /\ ~uhyve_device
             /\ reader.pc = "none" /\ writer.pc = "none"
             /\ \A id \in DOMAIN cpu_tx : cpu_tx[id] = None

(***************************************************************************)
(* Further properties of the bridge (specification Spec).                  *)
(***************************************************************************)
\* C12 (as claimed): a token makes the writer thread drain the TX ring
\* completely; whenever it goes back to waiting on the channel it has seen
\* read = written, so the ring is empty at that step
C12_DrainsPerToken ==
    [][(writer.pc \notin {"init", "recv"} /\ writer'.pc = "recv")
          => tx_queue'.read = tx_queue'.written]_vars

RxFull == rx_queue.written - rx_queue.read = UHYVE_QUEUE_SIZE

\* the slots that hold published packets the consumer has not released
RxUnconsumed ==
    {k % UHYVE_QUEUE_SIZE : k \in rx_queue.read .. (rx_queue.written - 1)}

\* C13 (as claimed): while the RX ring is full no step takes a packet from
\* the TAP device, writes a slot or `written`, or raises an IRQ
C13_AsClaimed ==
    [][RxFull => /\ tap_in' = tap_in
                 /\ rx_queue'.inner = rx_queue.inner
                 /\ rx_queue'.written = rx_queue.written
                 /\ irqs' = irqs]_vars

\* C13 (amended): while the RX ring is full no step takes a packet from
\* the TAP device or writes a slot or `written`, and the only IRQ raised is
\* the one of the iteration that published the packet that filled the
\* ring; a packet is taken from the TAP device only in an iteration that
\* observed written - read < QUEUE_SIZE, with the ring still not full,
\* and into a slot that holds no unconsumed packet
C13_FullRingSpins ==
    [][/\ RxFull => /\ tap_in' = tap_in
                    /\ rx_queue'.inner = rx_queue.inner
                    /\ rx_queue'.written = rx_queue.written
                    /\ irqs' # irqs =>
                         (reader.pc = "irq"
                          /\ rx_queue.written = reader.written + 1)
       /\ tap_in' # tap_in =>
             /\ reader.written - reader.read < UHYVE_QUEUE_SIZE
             /\ rx_queue.written - rx_queue.read < UHYVE_QUEUE_SIZE
             /\ reader.idx \notin RxUnconsumed
       /\ \A s \in Slots :
             rx_queue'.inner[s] # rx_queue.inner[s] => s \notin RxUnconsumed
      ]_vars

\* C13 witness: the ring is full and the reader thread has looked at it,
\* found it full and is spinning
C13_Witness ==
    /\ RxFull
    /\ reader.pc = "poll"
    /\ reader.written - reader.read = UHYVE_QUEUE_SIZE
    /\ Len(tap_in) = UHYVE_QUEUE_SIZE

\* C14: every index k with read <= k < written has, in slot k mod
\* QUEUE_SIZE, the payload and the length of the k-th packet received from
\* the TAP device (packets are numbered from 0; their payloads are
\* pairwise different, so a slot in that range is never rewritten)
C14_PublishedSlots ==
    \A k \in rx_queue.read .. (rx_queue.written - 1) :
        /\ k + 1 <= Len(tap_in)
        /\ rx_queue.inner[k % UHYVE_QUEUE_SIZE] = tap_in[k + 1]

\* C14 witness: the ring is full of published packets after it has wrapped,
\* and the consumer is copying one of them
C14_Witness ==
    /\ RxFull
    /\ rx_queue.read > 0
    /\ guest_rx.pc = "copy"
    /\ tap_in[rx_queue.read + 1].len = MaxLen

\* C15: the IRQs asserted never exceed the packets published and trail
\* them by at most one, the one of the iteration that has just published;
\* an IRQ is asserted one at a time, by the iteration that published
C15_IrqPerPacket ==
    /\ [](/\ irqs <= rx_queue.written
          /\ rx_queue.written <= irqs + 1
          /\ (rx_queue.written = irqs + 1) => reader.pc \in {"irq", "dead"})
    /\ [][irqs' # irqs =>
            /\ irqs' = irqs + 1
            /\ reader.pc = "irq"
            /\ rx_queue.written = reader.written + 1
            /\ irqs' = rx_queue.written]_vars

\* C15 witness: MaxRx packets were published and an IRQ was asserted for
\* each of them
C15_Witness ==
    /\ irqs = MaxRx
    /\ rx_queue.written = MaxRx
    /\ reader.pc = "poll"

\* C17: once a thread has initialised its ring, every step leaves each
\* index of the ring unchanged or adds one to it
C17_IndexSteps ==
    [][/\ reader.pc # "init" =>
             /\ rx_queue'.written - rx_queue.written \in {0, 1}
             /\ rx_queue'.read - rx_queue.read \in {0, 1}
       /\ writer.pc # "init" =>
             /\ tx_queue'.read - tx_queue.read \in {0, 1}
             /\ tx_queue'.written - tx_queue.written \in {0, 1}
       /\ (reader' # reader /\ reader.pc # "init") =>
             rx_queue'.read = rx_queue.read
       /\ (writer' # writer /\ writer.pc # "init") =>
             tx_queue'.written = tx_queue.written]_vars

\* C17 witness: both host indices have been advanced to the last packet
C17_Witness ==
    /\ rx_queue.written = MaxRx
    /\ tx_queue.read = MaxTx

\* C18: in its loop the reader thread writes RX `written` and the RX slot
\* at `written mod QUEUE_SIZE` and nothing else of the rings; in its loop
\* the writer thread writes TX `read` and nothing else of the rings
C18_SingleWriter ==
    [][/\ (reader' # reader /\ reader.pc # "init") =>
             /\ rx_queue'.read = rx_queue.read
             /\ tx_queue' = tx_queue
             /\ \A s \in Slots :
                   rx_queue'.inner[s] # rx_queue.inner[s] =>
                       s = rx_queue.written % UHYVE_QUEUE_SIZE
       /\ (writer' # writer /\ writer.pc # "init") =>
             /\ tx_queue'.written = tx_queue.written
             /\ tx_queue'.inner = tx_queue.inner
             /\ rx_queue' = rx_queue]_vars

\* C18 witness: the reader thread has filled the slot of the second packet
\* while the writer thread has released the slot of the first one
C18_Witness ==
    /\ reader.pc = "store_written"
    /\ reader.written = 1
    /\ rx_queue.inner[1 % UHYVE_QUEUE_SIZE].len > 0
    /\ tx_queue.read = 1
    /\ tx_queue.written = MaxTx

(***************************************************************************)
(* Further properties of the start-up path (specification SpecBoot).       *)
(***************************************************************************)
GuestEnd(r) == r.guest_phys_addr + r.memory_size

\* C16: no installed region reaches into the hole [2^32 - 768 MiB, 2^32):
\* slot 0 ends at or below its start, slot 1 starts at 2^32, and two
\* installed regions have no guest physical address in common
C16_HolePreserved ==
    /\ \A r \in regions :
          /\ ~(r.guest_phys_addr < KVM_32BIT_MAX_MEM_SIZE
               /\ GuestEnd(r) > KVM_32BIT_GAP_START)
          /\ r.slot = 0 => GuestEnd(r) <= KVM_32BIT_GAP_START
          /\ r.slot = 1 => r.guest_phys_addr = KVM_32BIT_MAX_MEM_SIZE
    /\ \A r1, r2 \in regions :
          r1 # r2 => (GuestEnd(r1) <= r2.guest_phys_addr
                      \/ GuestEnd(r2) <= r1.guest_phys_addr)

\* C16 witness: both regions of a VM of 8 GiB + 1 MiB are installed, slot 0
\* up to the hole and slot 1 from 2^32
C16_Witness ==
    /\ params.mem_size = 8193
    /\ pc = "irq_chip"
    /\ \E r \in regions : r.slot = 0 /\ GuestEnd(r) = KVM_32BIT_GAP_START
    /\ \E r \in regions : r.slot = 1 /\ GuestEnd(r) = 8193

\* C19: the host range of every installed region lies inside the mapping
\* [host_base, host_base + mem_size) of MmapMemory::new, and every
\* installed region has a size above zero
C19_RegionsInsideMapping ==
    \A r \in regions :
        /\ r.memory_size > 0
        /\ guest_mem[1] <= r.userspace_addr
        /\ r.userspace_addr + r.memory_size <= guest_mem[1] + guest_mem[2]

\* C19 witness: a VM of 4 GiB + 1 MiB, whose slot 1 is the last MiB of the
\* mapping
C19_Witness ==
    /\ params.mem_size = KVM_32BIT_MAX_MEM_SIZE + 1
    /\ \E r \in regions :
          /\ r.slot = 1
          /\ r.memory_size = 1
          /\ r.userspace_addr + r.memory_size = guest_mem[1] + guest_mem[2]

====
